---- MODULE Spec2Model ----
(***************************************************************************)
(* A model of the job-board crawlers of this repository:                   *)
(*   indeed_crawler.py  (board 1, "indeed")                                *)
(*   naukri_crawler.py  (board 2, "naukri")                                *)
(* The crawl runs (crawl_indeed, crawl_naukri) are state machines whose    *)
(* steps are the statements between two calls of the browser primitive;    *)
(* the browser primitive's answers (navigation, page content, selector     *)
(* waits, cards found, hrefs) are inputs chosen with \E.                   *)
(* The salary parser (parse_salary_to_annual_min_inr) is a pure function   *)
(* over sequences of characters, with the regular expressions NUM_RE,      *)
(* RANGE_RE and VALUE_RE matched the way Python's backtracking matcher     *)
(* matches them.                                                           *)
(***************************************************************************)
EXTENDS Integers, Sequences, FiniteSets, TLC

VARIABLES
    board,        \* which crawler this invocation is: "indeed" or "naukri"
    limit,        \* the limit argument (target count)
    pc,           \* the position of the invocation in crawl_indeed / crawl_naukri
    page_idx,     \* crawl_indeed: the for-loop variable
    collected,    \* crawl_indeed: the collected list
    seen_jks,     \* crawl_indeed: the set of job keys seen
    page_num,     \* crawl_naukri: the page counter (starts at 1)
    jobs,         \* crawl_naukri: the jobs list
    seen_links,   \* crawl_naukri: the (never used) set of links
    cardsLeft,    \* cards of the current page not yet iterated over
    session,      \* the browser session: page, context, browser, each open/closed
    saveCalls,    \* history: the arguments of the save_jobs_to_db calls, in order
    visited,      \* history: number of page.goto calls of the invocation
    guard,        \* history: CaptchaGuard state of the current page visit
    waits,        \* history: operator waits (input()) of the current page visit
    rechecks,     \* history: captcha rechecks of the current page visit
    lastCard,     \* history: <<identifier, admitted>> of the last card extracted
    text,         \* salary parser: the input text
    parsed,       \* salary parser: <<>> before the call, <<board, result>> after
    table,        \* the rows of the board's table (indeed_jobs / naukri_jobs)
    invocation,   \* history: the number of main() invocations so far
    paced,        \* history: pacing delays applied since the last page.goto
    faults,       \* history: positions of the last save whose INSERT raised
    logged,       \* the positions whose failure the last save printed
    title,        \* senior flag: the title of the card
    years,        \* senior flag: the years of experience read from the card
    is_senior     \* senior flag: <<>> before, <<board, flag>> after

vars == <<board, limit, pc, page_idx, collected, seen_jks, page_num, jobs,
          seen_links, cardsLeft, session, saveCalls, visited, guard, waits,
          rechecks, lastCard, text, parsed, table, invocation, paced, faults, logged,
          title, years, is_senior>>

crawlVars == <<board, limit, pc, page_idx, collected, seen_jks, page_num, jobs,
               seen_links, cardsLeft, session, saveCalls, visited, guard, waits,
               rechecks, lastCard, table, invocation, paced, faults, logged>>

salaryVars == <<text, parsed>>

seniorVars == <<title, years, is_senior>>

-----------------------------------------------------------------------------
(* Bounds of the model *)

\* largest limit (target count) a run is started with
MaxLimit == 2
\* largest number of cards one selector finds on a page
MaxCards == 2
\* cap on the page visits of crawl_naukri, whose loop has no page budget
MaxPages == 7
\* largest number of main() invocations, one after the other
MaxRuns == 2

-----------------------------------------------------------------------------
(* Values *)

\* Python's None; also the empty url ("") a card without href gets
None == <<>>

\* results_per_page = 15
results_per_page == 15
\* the "+ 5" slack of max_pages
page_slack == 5

\* math.ceil(a / b) for b > 0
ceil_div(a, b) == (a + b - 1) \div b

\* max_pages = math.ceil(limit / results_per_page) + 5
max_pages(lim) == ceil_div(lim, results_per_page) + page_slack

\* An href is <<path, query>>, query a sequence of <<key, value>> pairs.
Hrefs ==
    { <<"/rc/clk", << <<"jk", "a1">> >> >>,
      <<"/viewjob", << <<"from", "serp">>, <<"jk", "a1">> >> >>,
      <<"/rc/clk", << <<"jk", "b2">> >> >>,
      <<"/company/acme", <<>> >>,
      <<"/pagead/clk", << <<"jk", "">> >> >> }

\* what link_el.get_attribute("href") can give: an href, or None
HrefInputs == Hrefs \cup {None}

\* what title_el.get_attribute("href") can give on board 2
Links == { None, <<"/job-listings-a">>, <<"/job-listings-b">> }

\* parse_qs(q.query).get("jk"): the values of the jk keys, blank values dropped
RECURSIVE jk_values(_)
jk_values(query) ==
    IF query = <<>> THEN <<>>
    ELSE LET kv == Head(query)
         IN  (IF kv[1] = "jk" /\ kv[2] # "" THEN <<kv[2]>> ELSE <<>>)
             \o jk_values(Tail(query))

\* extract_jobkey_from_href: None for no href; else the first jk value of the
\* query; the regex fallback finds a jk only where parse_qs found one (the
\* hrefs here carry no fragment), so it adds nothing.
extract_jobkey_from_href(href) ==
    IF href = None THEN None
    ELSE LET jk == jk_values(href[2])
         IN  IF jk # <<>> THEN <<jk[1]>> ELSE None

\* The page content, as the set of phrases that occur in it.
needles == { "verify you are human", "unusual traffic", "hcaptcha",
             "recaptcha", "/captcha/", "detected unusual" }

Contents == { {"job_seen_beacon"}, {}, {"recaptcha"},
              {"job_seen_beacon", "unusual traffic"} }

\* looks_like_captcha: any needle occurs in the content
looks_like_captcha(content) == \E n \in needles : n \in content

\* The browser session of a run: the page, context and browser it opened, and
\* the Playwright driver the "with sync_playwright()" block holds.
SessionOpen == [page |-> "open", context |-> "open", browser |-> "open",
                playwright |-> "started"]
\* after page.close(), context.close(), browser.close() and the end of the block
SessionClosed == [page |-> "closed", context |-> "closed", browser |-> "closed",
                  playwright |-> "stopped"]

-----------------------------------------------------------------------------
(* main *)

\* clear_jobs_table: DROP TABLE IF EXISTS leaves no row of the table
clear_jobs_table(tbl) == <<>>

\* a broken entry point: the table is not dropped
IndeedMainNoClear ==
    /\ board = "indeed" /\ pc \in {"main", "done", "raised"}
    /\ invocation < MaxRuns
    /\ invocation' = invocation + 1
    /\ table' = table
    /\ \E lim \in 0..MaxLimit : limit' = lim
    /\ pc' = "loop"
    /\ page_idx' = 0 /\ collected' = <<>> /\ seen_jks' = {}
    /\ cardsLeft' = 0
    /\ session' = SessionOpen
    /\ saveCalls' = <<>> /\ visited' = 0 /\ guard' = "Normal"
    /\ waits' = 0 /\ rechecks' = 0 /\ lastCard' = <<>>
    /\ paced' = 0 /\ faults' = {} /\ logged' = {}
    /\ UNCHANGED <<board, page_num, jobs, seen_links>>
    /\ UNCHANGED salaryVars
    /\ UNCHANGED seniorVars

\* main of indeed_crawler.py, up to the first test of the page loop:
\* clear_jobs_table(), the arguments, then crawl_indeed's locals and browser.
\* A new invocation starts when the one before has ended.
IndeedMain ==
    /\ board = "indeed" /\ pc \in {"main", "done", "raised"}
    /\ invocation < MaxRuns
    /\ invocation' = invocation + 1
    /\ table' = clear_jobs_table(table)
    /\ \E lim \in 0..MaxLimit : limit' = lim
    /\ pc' = "loop"
    /\ page_idx' = 0 /\ collected' = <<>> /\ seen_jks' = {}
    /\ cardsLeft' = 0
    /\ session' = SessionOpen
    /\ saveCalls' = <<>> /\ visited' = 0 /\ guard' = "Normal"
    /\ waits' = 0 /\ rechecks' = 0 /\ lastCard' = <<>>
    /\ paced' = 0 /\ faults' = {} /\ logged' = {}
    /\ UNCHANGED <<board, page_num, jobs, seen_links>>
    /\ UNCHANGED salaryVars
    /\ UNCHANGED seniorVars

\* main of naukri_crawler.py, up to the first test of the page loop:
\* clear_jobs_table(), the arguments, then crawl_naukri's locals and browser.
NaukriMain ==
    /\ board = "naukri" /\ pc \in {"main", "done", "raised"}
    /\ invocation < MaxRuns
    /\ invocation' = invocation + 1
    /\ table' = clear_jobs_table(table)
    /\ \E lim \in 0..MaxLimit : limit' = lim
    /\ pc' = "loop"
    /\ page_num' = 1 /\ jobs' = <<>> /\ seen_links' = {}
    /\ cardsLeft' = 0
    /\ session' = SessionOpen
    /\ saveCalls' = <<>> /\ visited' = 0 /\ guard' = "Normal"
    /\ waits' = 0 /\ rechecks' = 0 /\ lastCard' = <<>>
    /\ paced' = 0 /\ faults' = {} /\ logged' = {}
    /\ UNCHANGED <<board, page_idx, collected, seen_jks>>
    /\ UNCHANGED salaryVars
    /\ UNCHANGED seniorVars

-----------------------------------------------------------------------------
(* crawl_indeed *)

\* page.goto of the for loop, the settle waits, and the first captcha check
IndeedGoto ==
    /\ board = "indeed" /\ pc = "loop"
    /\ page_idx < max_pages(limit)
    /\ visited' = visited + 1
    /\ rechecks' = 0
    /\ paced' = 0
    /\ \E timeout \in BOOLEAN, content \in Contents :
         IF timeout
         THEN \* PWTimeout is not caught: it leaves the with block, which
              \* stops the driver, and crawl_indeed; no close() is called
              /\ pc' = "raised"
              /\ session' = [session EXCEPT !.playwright = "stopped"]
              /\ guard' = "Normal" /\ waits' = 0
         ELSE IF looks_like_captcha(content)
         THEN /\ pc' = "input"
              /\ session' = session
              /\ guard' = "AwaitingManualResolution" /\ waits' = 1
         ELSE /\ pc' = "wait_for_selector"
              /\ session' = session
              /\ guard' = "Normal" /\ waits' = 0
    /\ UNCHANGED <<board, limit, page_idx, collected, seen_jks, page_num, jobs,
                   seen_links, cardsLeft, saveCalls>>
    /\ UNCHANGED <<lastCard, text, parsed>>
    /\ UNCHANGED <<table, invocation, faults, logged>>
    /\ UNCHANGED seniorVars

\* range(max_pages) is exhausted
IndeedLoopEnd ==
    /\ board = "indeed" /\ pc = "loop"
    /\ page_idx >= max_pages(limit)
    /\ pc' = "cleanup"
    /\ UNCHANGED <<board, limit, page_idx, collected, seen_jks, page_num, jobs,
                   seen_links, cardsLeft, session, saveCalls, visited, guard,
                   waits, rechecks>>
    /\ UNCHANGED <<lastCard, text, parsed>>
    /\ UNCHANGED <<table, invocation, paced, faults, logged>>
    /\ UNCHANGED seniorVars

\* input(...) returns (ENTER) or raises KeyboardInterrupt, which is passed over
IndeedInput ==
    /\ board = "indeed" /\ pc = "input"
    /\ \E signal \in {"ENTER", "KeyboardInterrupt"} :
         /\ pc' = "recheck"
         /\ guard' = "Rechecking"
    /\ UNCHANGED <<board, limit, page_idx, collected, seen_jks, page_num, jobs,
                   seen_links, cardsLeft, session, saveCalls, visited, waits,
                   rechecks>>
    /\ UNCHANGED <<lastCard, text, parsed>>
    /\ UNCHANGED <<table, invocation, paced, faults, logged>>
    /\ UNCHANGED seniorVars

\* a broken guard: a page still blocked sends the run back to the prompt
IndeedRecheckAgain ==
    /\ board = "indeed" /\ pc = "recheck"
    /\ \E content \in Contents :
         IF looks_like_captcha(content)
         THEN /\ pc' = "input" /\ guard' = "AwaitingManualResolution"
              /\ waits' = waits + 1 /\ rechecks' = rechecks
         ELSE /\ pc' = "wait_for_selector" /\ guard' = "Normal"
              /\ waits' = waits /\ rechecks' = rechecks + 1
    /\ UNCHANGED <<board, limit, page_idx, collected, seen_jks, page_num, jobs,
                   seen_links, cardsLeft, session, saveCalls, visited>>
    /\ UNCHANGED <<lastCard, text, parsed>>
    /\ UNCHANGED <<table, invocation, paced, faults, logged>>
    /\ UNCHANGED seniorVars

\* a broken guard: the break of the still-blocked branch is missing
IndeedRecheckNoBreak ==
    /\ board = "indeed" /\ pc = "recheck"
    /\ \E content \in Contents :
         /\ guard' = IF looks_like_captcha(content) THEN "Aborted" ELSE "Normal"
         /\ pc' = "wait_for_selector"
    /\ rechecks' = rechecks + 1
    /\ UNCHANGED <<board, limit, page_idx, collected, seen_jks, page_num, jobs,
                   seen_links, cardsLeft, session, saveCalls, visited, waits>>
    /\ UNCHANGED <<lastCard, text, parsed>>
    /\ UNCHANGED <<table, invocation, paced, faults, logged>>
    /\ UNCHANGED seniorVars

\* page.wait_for_timeout(4000) and the second looks_like_captcha
IndeedRecheck ==
    /\ board = "indeed" /\ pc = "recheck"
    /\ \E content \in Contents :
         IF looks_like_captcha(content)
         THEN /\ pc' = "cleanup" /\ guard' = "Aborted"       \* break
         ELSE /\ pc' = "wait_for_selector" /\ guard' = "Normal"
    /\ rechecks' = rechecks + 1
    /\ UNCHANGED <<board, limit, page_idx, collected, seen_jks, page_num, jobs,
                   seen_links, cardsLeft, session, saveCalls, visited, waits>>
    /\ UNCHANGED <<lastCard, text, parsed>>
    /\ UNCHANGED <<table, invocation, paced, faults, logged>>
    /\ UNCHANGED seniorVars

\* page.wait_for_selector, then the two query_selector_all of the fallback chain
IndeedWaitSelector ==
    /\ board = "indeed" /\ pc = "wait_for_selector"
    /\ \E timeout \in BOOLEAN, primary \in 0..MaxCards, secondary \in 0..MaxCards :
         IF timeout
         THEN \* except PWTimeout: continue
              /\ pc' = "loop"
              /\ page_idx' = page_idx + 1
              /\ cardsLeft' = 0
         ELSE /\ pc' = "cards"
              /\ page_idx' = page_idx
              /\ cardsLeft' = IF primary # 0 THEN primary ELSE secondary
    /\ UNCHANGED <<board, limit, collected, seen_jks, page_num, jobs,
                   seen_links, session, saveCalls, visited, guard, waits,
                   rechecks>>
    /\ UNCHANGED <<lastCard, text, parsed>>
    /\ UNCHANGED <<table, invocation, paced, faults, logged>>
    /\ UNCHANGED seniorVars

\* one iteration of "for card in cards" (or its end)
IndeedCard ==
    /\ board = "indeed" /\ pc = "cards"
    /\ IF cardsLeft = 0
       THEN /\ pc' = "pacing"
            /\ UNCHANGED <<collected, seen_jks, cardsLeft, lastCard>>
       ELSE IF Len(collected) >= limit
       THEN \* break
            /\ pc' = "pacing"
            /\ cardsLeft' = 0
            /\ UNCHANGED <<collected, seen_jks, lastCard>>
       ELSE \E href \in HrefInputs :
              LET jk == extract_jobkey_from_href(href)
              IN  /\ pc' = "cards"
                  /\ cardsLeft' = cardsLeft - 1
                  /\ IF jk # None /\ jk[1] \in seen_jks
                     THEN \* continue
                          /\ UNCHANGED <<collected, seen_jks>>
                          /\ lastCard' = <<jk, FALSE>>
                     ELSE /\ seen_jks' = IF jk # None
                                         THEN seen_jks \cup {jk[1]}
                                         ELSE seen_jks
                          /\ collected' = Append(collected, [url |-> href])
                          /\ lastCard' = <<jk, TRUE>>
    /\ UNCHANGED <<board, limit, page_idx, page_num, jobs, seen_links, session,
                   saveCalls, visited, guard, waits, rechecks>>
    /\ UNCHANGED salaryVars
    /\ UNCHANGED <<table, invocation, paced, faults, logged>>
    /\ UNCHANGED seniorVars

\* page.wait_for_timeout(2500) and the limit test that ends the for loop
IndeedPacing ==
    /\ board = "indeed" /\ pc = "pacing"
    /\ paced' = paced + 1
    /\ IF Len(collected) >= limit
       THEN pc' = "cleanup" /\ page_idx' = page_idx
       ELSE pc' = "loop" /\ page_idx' = page_idx + 1
    /\ UNCHANGED <<board, limit, collected, seen_jks, page_num, jobs,
                   seen_links, cardsLeft, session, saveCalls, visited, guard,
                   waits, rechecks>>
    /\ UNCHANGED <<lastCard, text, parsed>>
    /\ UNCHANGED <<table, invocation, faults, logged>>
    /\ UNCHANGED seniorVars

\* page.close(); context.close(); browser.close()
IndeedCleanup ==
    /\ board = "indeed" /\ pc = "cleanup"
    /\ session' = SessionClosed
    /\ pc' = "save"
    /\ UNCHANGED <<board, limit, page_idx, collected, seen_jks, page_num, jobs,
                   seen_links, cardsLeft, saveCalls, visited, guard, waits,
                   rechecks>>
    /\ UNCHANGED <<lastCard, text, parsed>>
    /\ UNCHANGED <<table, invocation, paced, faults, logged>>
    /\ UNCHANGED seniorVars

\* the row one INSERT of save_jobs_to_db writes for the listing at position i;
\* item and run are history: the position and the invocation that wrote it
indeed_row(listings, i, r) == [url |-> listings[i].url, item |-> i, run |-> r]

\* the for loop of save_jobs_to_db over all of jobs, no INSERT failing
indeed_insert_all(tbl, listings, r) ==
    tbl \o [i \in 1..Len(listings) |-> indeed_row(listings, i, r)]

\* save_jobs_to_db(collected); return collected.  The INSERT of position
\* fault raises (0: none does).  The exception is not caught: conn.commit()
\* is not reached, so the rows inserted before it are never committed.
IndeedSave ==
    /\ board = "indeed" /\ pc = "save"
    /\ saveCalls' = Append(saveCalls, collected)
    /\ logged' = {}
    /\ \E fault \in 0..Len(collected) :
         IF fault = 0
         THEN /\ table' = indeed_insert_all(table, collected, invocation)
              /\ faults' = {}
              /\ pc' = "done"
         ELSE /\ table' = table
              /\ faults' = {fault}
              /\ pc' = "raised"
    /\ UNCHANGED <<board, limit, page_idx, collected, seen_jks, page_num, jobs,
                   seen_links, cardsLeft, session, visited, guard, waits,
                   rechecks>>
    /\ UNCHANGED <<lastCard, text, parsed>>
    /\ UNCHANGED <<invocation, paced>>
    /\ UNCHANGED seniorVars

-----------------------------------------------------------------------------
(* crawl_naukri *)

\* the while test holds: page.goto and the scrolling, inside try/except
NaukriGoto ==
    /\ board = "naukri" /\ pc = "loop"
    /\ Len(jobs) < limit
    /\ visited < MaxPages
    /\ visited' = visited + 1
    /\ paced' = 0
    /\ \E failed \in BOOLEAN :
         pc' = IF failed THEN "cleanup" ELSE "wait_for_selector"
    /\ UNCHANGED <<board, limit, page_idx, collected, seen_jks, page_num, jobs,
                   seen_links, cardsLeft, session, saveCalls, guard, waits,
                   rechecks>>
    /\ UNCHANGED <<lastCard, text, parsed>>
    /\ UNCHANGED <<table, invocation, faults, logged>>
    /\ UNCHANGED seniorVars

\* the while test fails
NaukriLoopEnd ==
    /\ board = "naukri" /\ pc = "loop"
    /\ Len(jobs) >= limit
    /\ pc' = "cleanup"
    /\ UNCHANGED <<board, limit, page_idx, collected, seen_jks, page_num, jobs,
                   seen_links, cardsLeft, session, saveCalls, visited, guard,
                   waits, rechecks>>
    /\ UNCHANGED <<lastCard, text, parsed>>
    /\ UNCHANGED <<table, invocation, paced, faults, logged>>
    /\ UNCHANGED seniorVars

\* page.wait_for_selector, then the three query_selector_all of the chain
NaukriWaitSelector ==
    /\ board = "naukri" /\ pc = "wait_for_selector"
    /\ \E timeout \in BOOLEAN, first \in 0..MaxCards, second \in 0..MaxCards,
          third \in 0..MaxCards :
         IF timeout
         THEN \* except Exception: break
              /\ pc' = "cleanup"
              /\ cardsLeft' = 0
         ELSE /\ pc' = "cards"
              /\ cardsLeft' = IF first # 0 THEN first
                              ELSE IF second # 0 THEN second ELSE third
    /\ UNCHANGED <<board, limit, page_idx, collected, seen_jks, page_num, jobs,
                   seen_links, session, saveCalls, visited, guard, waits,
                   rechecks>>
    /\ UNCHANGED <<lastCard, text, parsed>>
    /\ UNCHANGED <<table, invocation, paced, faults, logged>>
    /\ UNCHANGED seniorVars

\* one iteration of "for card in job_cards" (or its end)
NaukriCard ==
    /\ board = "naukri" /\ pc = "cards"
    /\ IF cardsLeft = 0
       THEN /\ pc' = "next_page"
            /\ UNCHANGED <<jobs, cardsLeft, lastCard>>
       ELSE \E link \in Links :
              /\ pc' = "cards"
              /\ cardsLeft' = cardsLeft - 1
              /\ jobs' = Append(jobs, [link |-> link])
              /\ lastCard' = <<link, TRUE>>
    /\ UNCHANGED <<board, limit, page_idx, collected, seen_jks, page_num,
                   seen_links, session, saveCalls, visited, guard, waits,
                   rechecks>>
    /\ UNCHANGED salaryVars
    /\ UNCHANGED <<table, invocation, paced, faults, logged>>
    /\ UNCHANGED seniorVars

\* page_num += 1; time.sleep(1.5)
NaukriNextPage ==
    /\ board = "naukri" /\ pc = "next_page"
    /\ page_num' = page_num + 1
    /\ paced' = paced + 1
    /\ pc' = "loop"
    /\ UNCHANGED <<board, limit, page_idx, collected, seen_jks, jobs,
                   seen_links, cardsLeft, session, saveCalls, visited, guard,
                   waits, rechecks>>
    /\ UNCHANGED <<lastCard, text, parsed>>
    /\ UNCHANGED <<table, invocation, faults, logged>>
    /\ UNCHANGED seniorVars

\* page.close(); context.close(); browser.close()
NaukriCleanup ==
    /\ board = "naukri" /\ pc = "cleanup"
    /\ session' = SessionClosed
    /\ pc' = "save"
    /\ UNCHANGED <<board, limit, page_idx, collected, seen_jks, page_num, jobs,
                   seen_links, cardsLeft, saveCalls, visited, guard, waits,
                   rechecks>>
    /\ UNCHANGED <<lastCard, text, parsed>>
    /\ UNCHANGED <<table, invocation, paced, faults, logged>>
    /\ UNCHANGED seniorVars

\* the row one INSERT of save_jobs_to_db writes for the listing at position i;
\* item and run are history: the position and the invocation that wrote it
naukri_row(listings, i, r) == [url |-> listings[i].link, item |-> i, run |-> r]

\* url TEXT UNIQUE: a row with this url exists; a NULL url equals no other
url_stored(tbl, link) ==
    link # None /\ \E k \in 1..Len(tbl) : tbl[k].url = link

\* the for loop of save_jobs_to_db from position i on: the INSERT of a
\* position in F raises and is printed, INSERT OR IGNORE skips a stored url
RECURSIVE naukri_insert_from(_, _, _, _, _)
naukri_insert_from(tbl, listings, i, F, r) ==
    IF i > Len(listings) THEN tbl
    ELSE naukri_insert_from(
             IF i \in F \/ url_stored(tbl, listings[i].link)
             THEN tbl
             ELSE Append(tbl, naukri_row(listings, i, r)),
             listings, i + 1, F, r)

\* a broken save: INSERT OR REPLACE, the later listing takes the stored row
RECURSIVE replace_insert_from(_, _, _, _, _)
replace_insert_from(tbl, listings, i, F, r) ==
    IF i > Len(listings) THEN tbl
    ELSE replace_insert_from(
             IF i \in F THEN tbl
             ELSE IF url_stored(tbl, listings[i].link)
             THEN [k \in 1..Len(tbl) |->
                     IF tbl[k].url = listings[i].link
                     THEN naukri_row(listings, i, r) ELSE tbl[k]]
             ELSE Append(tbl, naukri_row(listings, i, r)),
             listings, i + 1, F, r)

NaukriSaveReplace ==
    /\ board = "naukri" /\ pc = "save"
    /\ saveCalls' = Append(saveCalls, jobs)
    /\ \E F \in SUBSET (1..Len(jobs)) :
         /\ table' = replace_insert_from(table, jobs, 1, F, invocation)
         /\ faults' = F
         /\ logged' = F
    /\ pc' = "done"
    /\ UNCHANGED <<board, limit, page_idx, collected, seen_jks, page_num, jobs,
                   seen_links, cardsLeft, session, visited, guard, waits,
                   rechecks>>
    /\ UNCHANGED <<lastCard, text, parsed>>
    /\ UNCHANGED <<invocation, paced>>
    /\ UNCHANGED seniorVars

\* a broken save: the try/except is around the loop, the first failure ends it
NaukriSaveStopsAtFault ==
    /\ board = "naukri" /\ pc = "save"
    /\ saveCalls' = Append(saveCalls, jobs)
    /\ \E F \in SUBSET (1..Len(jobs)) :
         LET first == IF F = {} THEN Len(jobs) + 1
                      ELSE CHOOSE i \in F : \A j \in F : i <= j
         IN  /\ table' = naukri_insert_from(table, SubSeq(jobs, 1, first - 1),
                                            1, {}, invocation)
             /\ faults' = F
             /\ logged' = IF F = {} THEN {} ELSE {first}
    /\ pc' = "done"
    /\ UNCHANGED <<board, limit, page_idx, collected, seen_jks, page_num, jobs,
                   seen_links, cardsLeft, session, visited, guard, waits,
                   rechecks>>
    /\ UNCHANGED <<lastCard, text, parsed>>
    /\ UNCHANGED <<invocation, paced>>
    /\ UNCHANGED seniorVars

\* save_jobs_to_db(jobs); return jobs.  F: the positions whose INSERT raises;
\* each is caught and printed, the loop goes on, and conn.commit() is reached.
NaukriSave ==
    /\ board = "naukri" /\ pc = "save"
    /\ saveCalls' = Append(saveCalls, jobs)
    /\ \E F \in SUBSET (1..Len(jobs)) :
         /\ table' = naukri_insert_from(table, jobs, 1, F, invocation)
         /\ faults' = F
         /\ logged' = F
    /\ pc' = "done"
    /\ UNCHANGED <<board, limit, page_idx, collected, seen_jks, page_num, jobs,
                   seen_links, cardsLeft, session, visited, guard, waits,
                   rechecks>>
    /\ UNCHANGED <<lastCard, text, parsed>>
    /\ UNCHANGED <<invocation, paced>>
    /\ UNCHANGED seniorVars

-----------------------------------------------------------------------------

(* The crawl specification *)

\* what the table can hold before the first invocation: nothing, or a row an
\* earlier invocation (number 0) wrote
EarlierTables(b) ==
    { <<>>,
      << [url |-> IF b = "indeed" THEN <<"/rc/clk", << <<"jk", "a1">> >> >>
                  ELSE <<"/job-listings-a">>,
          item |-> 1, run |-> 0] >> }

\* the state before main() is invoked: no run yet, the database as earlier
\* invocations left it
Init ==
    /\ board \in {"indeed", "naukri"}
    /\ limit = 0
    /\ pc = "main"
    /\ table \in EarlierTables(board)
    /\ invocation = 0
    /\ paced = 0
    /\ faults = {}
    /\ logged = {}
    /\ title = <<>>
    /\ years = None
    /\ is_senior = <<>>
    /\ page_idx = 0
    /\ collected = <<>>
    /\ seen_jks = {}
    /\ page_num = 1
    /\ jobs = <<>>
    /\ seen_links = {}
    /\ cardsLeft = 0
    /\ session = SessionOpen
    /\ saveCalls = <<>>
    /\ visited = 0
    /\ guard = "Normal"
    /\ waits = 0
    /\ rechecks = 0
    /\ lastCard = <<>>
    /\ text = <<>>
    /\ parsed = <<>>

Next ==
    \/ IndeedMain
    \/ NaukriMain
    \/ IndeedGoto
    \/ IndeedLoopEnd
    \/ IndeedInput
    \/ IndeedRecheck
    \/ IndeedWaitSelector
    \/ IndeedCard
    \/ IndeedPacing
    \/ IndeedCleanup
    \/ IndeedSave
    \/ NaukriGoto
    \/ NaukriLoopEnd
    \/ NaukriWaitSelector
    \/ NaukriCard
    \/ NaukriNextPage
    \/ NaukriCleanup
    \/ NaukriSave

Spec == Init /\ [][Next]_vars

\* The run itself always takes its next step; only the operator's signal
\* (IndeedInput) may never come.
FairSpec ==
    /\ Init /\ [][Next]_vars
    /\ WF_vars(IndeedRecheck)

-----------------------------------------------------------------------------
(* Properties of the crawl runs *)

\* the run's collected list: collected on board 1, jobs on board 2
Listings == IF board = "indeed" THEN collected ELSE jobs

\* a listing's identifier: the job key of its url on board 1, its link on board 2
Identifier(listing) ==
    IF board = "indeed"
    THEN extract_jobkey_from_href(listing.url)
    ELSE listing.link

\* the run has ended: crawl_* returned, or an exception left it
Ended == pc \in {"done", "raised"}

\* C1: a crawl run of either board visits at most
\* ceil(targetCount / perPageEstimate) + slack pages.
C1_PageBudget == visited <= max_pages(limit)

\* C2: no two listings of the collected list carry the same non-null
\* identifier, and a card with no identifier that was extracted was admitted.
C2_DedupInvariant ==
    /\ \A i, j \in 1..Len(Listings) :
         (i < j /\ Identifier(Listings[i]) # None)
            => Identifier(Listings[i]) # Identifier(Listings[j])
    /\ (lastCard # <<>> /\ lastCard[1] = None) => lastCard[2]

\* C3: a page found with a captcha marker gets exactly one operator wait and
\* exactly one recheck; the recheck ends in Normal, with the card extraction of
\* that page next, or in Aborted, with the page loop left; the wait is never
\* entered again during the same page visit; and once the operator's signal has
\* arrived the guard reaches Normal or Aborted.
C3_CaptchaGuard ==
    /\ [](waits <= 1 /\ rechecks <= waits)
    /\ [](pc = "input" => (guard = "AwaitingManualResolution"
                            /\ waits = 1 /\ rechecks = 0))
    /\ [](pc = "recheck" => (guard = "Rechecking" /\ waits = 1 /\ rechecks = 0))
    /\ [][pc = "input" => (pc' = "recheck" /\ waits' = waits)]_vars
    /\ [][pc = "recheck" =>
            /\ rechecks' = 1 /\ waits' = 1
            /\ \/ guard' = "Normal" /\ pc' = "wait_for_selector"
               \/ guard' = "Aborted" /\ pc' = "cleanup"]_vars
    /\ [][(rechecks = 1 /\ visited' = visited) => pc' # "input"]_vars
    /\ (pc = "recheck") ~> (guard \in {"Normal", "Aborted"})

\* C3 witness: the guard resolved to Normal after one wait and one recheck, and
\* the cards of that page are being extracted.
C3_Witness ==
    /\ guard = "Normal" /\ waits = 1 /\ rechecks = 1
    /\ pc = "cards" /\ cardsLeft > 0

\* C4: the collected list never holds more than targetCount listings.
C4_AtMostLimit == Len(Listings) <= limit

\* C5: whatever failure ends or interrupts the run, the run has called the
\* Persister with the listings collected up to then when it ends.
C5_FailureStillSaves == Ended => saveCalls = <<Listings>>

\* C6: after the recheck ends in Aborted the run visits no further page,
\* extracts no card, and hands the Persister the collected list unchanged.
C6_AbortKeepsCollected ==
    /\ [][guard' = "Aborted" =>
            (visited' = visited /\ collected' = collected
             /\ lastCard' = lastCard)]_vars
    /\ [](guard = "Aborted" => (pc \in {"cleanup", "save"} \/ Ended))
    /\ []((guard = "Aborted" /\ Ended) => saveCalls = <<collected>>)

\* C6 witness: a run that aborted on a later page, ended, and saved the
\* listings of the earlier pages.
C6_Witness ==
    /\ guard = "Aborted" /\ pc = "done"
    /\ Len(collected) > 0 /\ saveCalls = <<collected>>

\* C7: when the run has ended, on any exit path, its page, context and browser
\* have been closed.
C7_SessionClosedOnExit ==
    Ended => (session.page = "closed" /\ session.context = "closed"
              /\ session.browser = "closed")

-----------------------------------------------------------------------------
(* Properties of the entry points, the page loop and the saves *)

\* C12: the table drop of an invocation comes before its crawl and before any
\* of its inserts, and from then on, through the end of the invocation, the
\* table holds only rows that invocation wrote, whatever came before.
C12_TableReplaced ==
    /\ [][invocation' # invocation =>
            (table' = <<>> /\ visited' = 0 /\ saveCalls' = <<>>)]_vars
    /\ [](pc # "main" =>
            \A k \in 1..Len(table) : table[k].run = invocation)

\* C12 witness: a second invocation has completed and left rows, after a
\* first one.
C12_Witness ==
    /\ invocation = 2 /\ pc = "done"
    /\ Len(table) > 0

\* the first position of the list, not failed, that carries this link
first_with_link(listings, F, link) ==
    CHOOSE h \in 1..Len(listings) :
        /\ h \notin F /\ listings[h].link = link
        /\ \A g \in 1..(h - 1) : g \in F \/ listings[g].link # link

\* C13: board 2's save never raises, and after it the table holds at most one
\* row per link; a listing whose link is already stored is skipped, nothing
\* is printed for it, and the stored row stays the one of the first listing
\* with that link.  An absent link is no link value: each listing without a
\* link gets a row of its own.
C13_UniqueLinkRows ==
    /\ board = "naukri" => pc # "raised"
    /\ (board = "naukri" /\ pc = "done") =>
         /\ \A i, j \in 1..Len(table) :
              (i < j /\ table[i].url # None) => table[i].url # table[j].url
         /\ \A k \in (1..Len(jobs)) \ faults :
              IF jobs[k].link = None
              THEN \E i \in 1..Len(table) : table[i].item = k
              ELSE /\ k \notin logged
                   /\ \E i \in 1..Len(table) :
                        /\ table[i].url = jobs[k].link
                        /\ table[i].item = first_with_link(jobs, faults, jobs[k].link)

\* C13 witness: a saved list that repeats a link and has a listing without
\* link; the repeat was skipped.
C13_Witness ==
    /\ board = "naukri" /\ pc = "done" /\ faults = {}
    /\ \E h, k \in 1..Len(jobs) :
         h < k /\ jobs[h].link # None /\ jobs[h].link = jobs[k].link
    /\ \E k \in 1..Len(jobs) : jobs[k].link = None
    /\ Len(table) < Len(jobs)

\* the page index of the run, from 0: page_idx on board 1, page_num - 1 on
\* board 2
PageIndex == IF board = "indeed" THEN page_idx ELSE page_num - 1

\* C14: a page is visited only when the collected count is below targetCount
\* and the page index is below the budget.
C14_VisitOnlyWhenNeeded ==
    [][visited' = visited + 1 =>
          (Len(Listings) < limit /\ PageIndex < max_pages(limit))]_vars

\* C15: between two consecutive page visits the pacing delay is applied
\* exactly once.
C15_PacedOnceBetweenVisits ==
    [][(visited > 0 /\ visited' = visited + 1) => paced = 1]_vars

\* C16: when an INSERT fails, board 2's save prints the failure, inserts every
\* other listing and commits; board 1's save is ended by the fault and
\* commits no listing of the call.
C16_InsertFailure ==
    /\ board = "naukri" => pc # "raised"
    /\ (board = "naukri" /\ pc = "done") =>
         /\ logged = faults
         /\ \A k \in (1..Len(jobs)) \ faults :
              \E i \in 1..Len(table) :
                 table[i].url = jobs[k].link /\ table[i].run = invocation
         /\ \A i \in 1..Len(table) : table[i].item \notin faults
    /\ (board = "indeed" /\ faults # {}) =>
         /\ pc = "raised" /\ saveCalls = <<collected>>
         /\ table = <<>> /\ logged = {}
    /\ (board = "indeed" /\ pc = "done") =>
         /\ faults = {}
         /\ Len(table) = Len(collected)

\* C16 witness: board 2 saved a list of which one INSERT failed, and the
\* other listings are in the table.
C16_Witness ==
    /\ board = "naukri" /\ pc = "done"
    /\ faults # {} /\ Len(table) > 0

-----------------------------------------------------------------------------
(* Salary parsing: characters and the regular expressions *)

\* A text is a sequence of one-character strings. Three characters outside
\* ASCII are written as names: the rupee glyph and the en and em dashes.
RUPEE == "Rs"
EN_DASH == "ndash"
EM_DASH == "mdash"

Digit == {"0", "1", "2", "3", "4", "5", "6", "7", "8", "9"}
Dash == {"-", EN_DASH, EM_DASH}

UPPER == <<"A", "B", "C", "D", "E", "F", "G", "H", "I", "J", "K", "L", "M",
           "N", "O", "P", "Q", "R", "S", "T", "U", "V", "W", "X", "Y", "Z">>
LOWER == <<"a", "b", "c", "d", "e", "f", "g", "h", "i", "j", "k", "l", "m",
           "n", "o", "p", "q", "r", "s", "t", "u", "v", "w", "x", "y", "z">>

\* str.lower()
lower(s) ==
    [i \in 1..Len(s) |->
        IF \E k \in 1..Len(UPPER) : UPPER[k] = s[i]
        THEN LOWER[CHOOSE k \in 1..Len(UPPER) : UPPER[k] = s[i]]
        ELSE s[i]]

\* w in t
contains(t, w) ==
    \E i \in 1..(Len(t) - Len(w) + 1) : SubSeq(t, i, i + Len(w) - 1) = w

\* the character at position i, "" past the end
At(s, i) == IF i \in 1..Len(s) THEN s[i] ELSE ""

Min(S) == CHOOSE x \in S : \A y \in S : x <= y

\* \d* and \s* at position i: the length of the longest run
RECURSIVE digits_run(_, _)
digits_run(s, i) == IF At(s, i) \in Digit THEN 1 + digits_run(s, i + 1) ELSE 0

RECURSIVE spaces_run(_, _)
spaces_run(s, i) == IF At(s, i) = " " THEN 1 + spaces_run(s, i + 1) ELSE 0

\* (?:,\d{w})* at position j: the largest number of repetitions
RECURSIVE group_count(_, _, _)
group_count(s, j, w) ==
    IF At(s, j) = "," /\ \A x \in 1..w : At(s, j + x) \in Digit
    THEN 1 + group_count(s, j + w + 1, w)
    ELSE 0

\* \d{1,3}(?:,\d{w})+ at position i, the leading digits being at most d: the
\* positions after each match, in the order the backtracking matcher tries
\* them (more leading digits first, then more groups first)
RECURSIVE grouped_ends(_, _, _, _)
grouped_ends(s, i, w, d) ==
    IF d = 0 THEN <<>>
    ELSE LET k == group_count(s, i + d, w)
         IN  [x \in 1..k |-> i + d + (k - x + 1) * (w + 1)]
             \o grouped_ends(s, i, w, d - 1)

\* \d+(?:\.\d+)? at position i, the leading digits being at most n: the
\* positions after each match, in the matcher's order
RECURSIVE decimal_ends(_, _, _)
decimal_ends(s, i, n) ==
    IF n = 0 THEN <<>>
    ELSE LET j == i + n
             m == IF At(s, j) = "." THEN digits_run(s, j + 1) ELSE 0
         IN  [x \in 1..m |-> j + 1 + (m - x + 1)] \o <<j>>
             \o decimal_ends(s, i, n - 1)

\* NUM_RE at position i: the positions after each match, in the order the
\* matcher tries them: \d{1,3}(?:,\d{2}){1,} | \d{1,3}(?:,\d{3})+ | \d+(?:\.\d+)?
NUM_RE(s, i) ==
    LET run == digits_run(s, i)
        d == IF run < 3 THEN run ELSE 3
    IN  grouped_ends(s, i, 2, d) \o grouped_ends(s, i, 3, d)
        \o decimal_ends(s, i, run)

\* the position after "₹?\s*" at position i (the number that follows starts
\* with a digit, so giving back the glyph or a space never helps a match)
currency_prefix_end(s, i) ==
    LET j == IF At(s, i) = RUPEE THEN i + 1 ELSE i
    IN  j + spaces_run(s, j)

\* the leftmost start at which a pattern matched, starts[i] being <<>> where
\* it did not: 0 when it matched nowhere
leftmost(starts) ==
    IF \A i \in DOMAIN starts : starts[i] = <<>> THEN 0
    ELSE Min({i \in DOMAIN starts : starts[i] # <<>>})

\* m.group(1) of VALUE_RE, ends[i] being the ends of NUM_RE after the prefix
\* at start i
value_group(s, ends, i) == IF i = 0 THEN <<>> ELSE <<SubSeq(s, i, ends[i][1] - 1)>>

\* VALUE_RE.search(s): None, or <<group 1>> of the leftmost match (the matcher
\* takes the first end NUM_RE offers, nothing follows the group)
value_search(s, ends) == value_group(s, ends, leftmost(ends))
VALUE_RE_search(s) ==
    value_search(s, [i \in 1..Len(s) |-> NUM_RE(s, currency_prefix_end(s, i))])

\* <<r, e>> for the first end e of a match that starts at r, <<>> without one
first_end(r, ends) == IF ends = <<>> THEN <<>> ELSE <<r, ends[1]>>

\* the second group of RANGE_RE, after "\s*[-–—]\s*" from position e
range_second_at(s, r) == first_end(r, NUM_RE(s, currency_prefix_end(s, r)))
range_after_dash(s, d) ==
    IF At(s, d) \in Dash THEN range_second_at(s, d + 1 + spaces_run(s, d + 1))
    ELSE <<>>
range_second(s, e) == range_after_dash(s, e + spaces_run(s, e))

\* the groups of the first end of the first number that the rest of the
\* pattern matches after
range_pick(s, i, ends, seconds) ==
    IF leftmost(seconds) = 0 THEN <<>>
    ELSE <<SubSeq(s, i, ends[leftmost(seconds)] - 1),
           SubSeq(s, seconds[leftmost(seconds)][1],
                  seconds[leftmost(seconds)][2] - 1)>>

range_groups(s, i, ends) ==
    range_pick(s, i, ends, [k \in 1..Len(ends) |-> range_second(s, ends[k])])

\* RANGE_RE matched at position i: <<>>, or <<group 1, group 2>>.
\* The ends of the first number are tried in the matcher's order; one is kept
\* when the dash and a second number follow it.
RANGE_RE_at(s, i) == range_groups(s, i, NUM_RE(s, currency_prefix_end(s, i)))

\* the match at the leftmost start
first_hit(hits) == IF leftmost(hits) = 0 THEN None ELSE hits[leftmost(hits)]

\* RANGE_RE.search(s): None, or the groups of the leftmost match
RANGE_RE_search(s) == first_hit([i \in 1..Len(s) |-> RANGE_RE_at(s, i)])

\* the unit words of the lakh/crore patterns, in the order of the alternation
units == << <<"l", "p", "a">>, <<"l", "a", "k", "h">>, <<"l", "a", "c">>,
            <<"c", "r", "o", "r", "e">> >>

\* (lpa|lakh|lac|crore) at position u: 0, or the number of the unit
unit_here(t, u) ==
    IF \A k \in 1..Len(units) :
          \/ u + Len(units[k]) - 1 > Len(t)
          \/ SubSeq(t, u, u + Len(units[k]) - 1) # units[k]
    THEN 0
    ELSE Min({k \in 1..Len(units) :
                /\ u + Len(units[k]) - 1 <= Len(t)
                /\ SubSeq(t, u, u + Len(units[k]) - 1) = units[k]})

\* \s*(lpa|lakh|lac|crore) at position e: 0, or the number of the unit
unit_at(t, e) == unit_here(t, e + spaces_run(t, e))

\* the ends of NUM_RE that a unit follows, in the matcher's order
RECURSIVE ends_before_unit(_, _)
ends_before_unit(t, ends) ==
    IF ends = <<>> THEN <<>>
    ELSE (IF unit_at(t, Head(ends)) # 0 THEN <<Head(ends)>> ELSE <<>>)
         \o ends_before_unit(t, Tail(ends))

\* the groups of the single-number lakh pattern matched at start i
lakh_single_groups(t, ends, i) ==
    IF i = 0 THEN None
    ELSE <<SubSeq(t, i, ends[i][1] - 1), unit_at(t, ends[i][1])>>

lakh_single_first(t, ends) == lakh_single_groups(t, ends, leftmost(ends))

\* ({NUM_RE})\s*(lpa|lakh|lac|crore) searched in t: None, or <<v, unit>>
lakh_single_search(t) ==
    lakh_single_first(t, [i \in 1..Len(t) |-> ends_before_unit(t, NUM_RE(t, i))])

\* the second number of the lakh range pattern and the unit after it
lakh_second_at(t, r) == first_end(r, ends_before_unit(t, NUM_RE(t, r)))
lakh_after_dash(t, d) ==
    IF At(t, d) \in Dash THEN lakh_second_at(t, d + 1 + spaces_run(t, d + 1))
    ELSE <<>>
lakh_second(t, e) == lakh_after_dash(t, e + spaces_run(t, e))

lakh_range_pick(t, i, ends, seconds) ==
    IF leftmost(seconds) = 0 THEN <<>>
    ELSE <<SubSeq(t, i, ends[leftmost(seconds)] - 1),
           SubSeq(t, seconds[leftmost(seconds)][1],
                  seconds[leftmost(seconds)][2] - 1),
           unit_at(t, seconds[leftmost(seconds)][2])>>

lakh_range_groups(t, i, ends) ==
    lakh_range_pick(t, i, ends, [k \in 1..Len(ends) |-> lakh_second(t, ends[k])])

\* ({NUM_RE})\s*[-–—]\s*({NUM_RE})\s*(lpa|lakh|lac|crore) matched at i:
\* <<>>, or <<a, b, unit>>
lakh_range_at(t, i) == lakh_range_groups(t, i, NUM_RE(t, i))

\* the same pattern searched in t: None, or the groups of the leftmost match
lakh_range_search(t) == first_hit([i \in 1..Len(t) |-> lakh_range_at(t, i)])

-----------------------------------------------------------------------------
(* Salary parsing: numbers *)

digit_value(c) == CHOOSE v \in 0..9 : At(<<"0", "1", "2", "3", "4", "5", "6",
                                            "7", "8", "9">>, v + 1) = c

\* the digits of s read as one decimal integer, every other character skipped
RECURSIVE digits_of(_, _)
digits_of(s, acc) ==
    IF s = <<>> THEN acc
    ELSE digits_of(Tail(s), IF Head(s) \in Digit
                            THEN 10 * acc + digit_value(Head(s))
                            ELSE acc)

\* 10 to the number of digits after the "." of s (1 when there is no ".")
RECURSIVE scale_of(_, _)
scale_of(s, seenDot) ==
    IF s = <<>> THEN 1
    ELSE IF Head(s) = "." THEN scale_of(Tail(s), TRUE)
    ELSE (IF seenDot /\ Head(s) \in Digit THEN 10 ELSE 1)
         * scale_of(Tail(s), seenDot)

\* _to_float_rupees: the glyph, spaces and commas are dropped and the rest is
\* read by float(); the value is the fraction <<numerator, denominator>>.
\* (A matched group always is digits with at most one ".", so float() does
\* not fail on it.)
to_float_rupees(num_str) == <<digits_of(num_str, 0), scale_of(num_str, FALSE)>>

\* int(round(x * k)) for the fraction x: Python rounds halves to even
round_times(x, k) ==
    LET n == x[1] * k
        q == n \div x[2]
        r == n % x[2]
    IN  IF 2 * r < x[2] THEN q
        ELSE IF 2 * r > x[2] THEN q + 1
        ELSE IF q % 2 = 0 THEN q ELSE q + 1

\* x > 0 for the fraction x
positive(x) == x[1] > 0

lakh_to_inr(x) == round_times(x, 100000)
crore_to_inr(x) == round_times(x, 10000000)
int_min(a, b) == IF b < a THEN b ELSE a

\* the period words
W_year == <<"y", "e", "a", "r">>
W_yr == <<"y", "r">>
W_annum == <<"a", "n", "n", "u", "m">>
W_month == <<"m", "o", "n", "t", "h">>
W_day == <<"d", "a", "y">>
W_hour == <<"h", "o", "u", "r">>
W_hr == <<"h", "r">>

per_year(t) == contains(t, W_year) \/ contains(t, W_yr) \/ contains(t, W_annum)
per_month(t) == contains(t, W_month)
per_day(t) == contains(t, W_day)
per_hour(t) == contains(t, W_hour) \/ contains(t, W_hr)

\* the factor of the if / elif chain over the period flags
annual_factor(t) ==
    IF per_year(t) THEN 1
    ELSE IF per_month(t) THEN 12
    ELSE IF per_day(t) THEN 22 * 12
    ELSE IF per_hour(t) THEN 8 * 22 * 12
    ELSE 1

\* the "lpa" / "lakh" / "lac" / "crore" test that opens the first branch
has_lakh_unit(t) == \E k \in 1..Len(units) : contains(t, units[k])

\* the value of a lakh/crore range: the smaller of the two converted ends
lakh_range_value(a, b, unit) ==
    IF unit = 4 THEN <<int_min(crore_to_inr(a), crore_to_inr(b))>>
    ELSE <<int_min(lakh_to_inr(a), lakh_to_inr(b))>>

\* the value of a single lakh/crore number
lakh_single_value(v, unit) ==
    IF unit = 4 THEN <<crore_to_inr(v)>> ELSE <<lakh_to_inr(v)>>

lakh_result(m_range, m_single) ==
    IF m_range # None
    THEN lakh_range_value(to_float_rupees(m_range[1]),
                          to_float_rupees(m_range[2]), m_range[3])
    ELSE IF m_single # None
    THEN lakh_single_value(to_float_rupees(m_single[1]), m_single[2])
    ELSE None

\* the lakh/crore branch: None when it returns nothing, else <<value>>
lakh_branch(t) == lakh_result(lakh_range_search(t), lakh_single_search(t))

\* a or b: the first that is not None
or_else(a, b) == IF a # None THEN a ELSE b

\* board 1, the range branch: low is the first number, annualized
range_result(t, low) == <<round_times(low, annual_factor(t))>>

\* board 1, the single-value branch: only a value above 0 gives a result
value_result(t, v) ==
    IF positive(v) THEN <<round_times(v, annual_factor(t))>> ELSE None

\* board 1, the two period-aware branches
period_result(t, m, m2) ==
    IF m # None THEN range_result(t, to_float_rupees(m[1]))
    ELSE IF m2 # None THEN value_result(t, to_float_rupees(m2[1]))
    ELSE None

parse_text(txt, t) ==
    or_else(IF has_lakh_unit(t) THEN lakh_branch(t) ELSE None,
            period_result(t, RANGE_RE_search(txt), VALUE_RE_search(txt)))

\* indeed_crawler.parse_salary_to_annual_min_inr: None, or <<annual minimum>>
parse_salary_to_annual_min_inr(txt) ==
    IF txt = None THEN None ELSE parse_text(txt, lower(txt))

\* board 2, the range branch
naukri_range_result(t, low) ==
    IF per_year(t) THEN <<round_times(low, 1)>>
    ELSE IF per_month(t) THEN <<round_times(low, 12)>>
    ELSE IF per_day(t) THEN <<round_times(low, 22 * 12)>>
    ELSE IF per_hour(t) THEN <<round_times(low, 8 * 22 * 12)>>
    ELSE <<round_times(low, 1)>>

\* board 2, the single-value branch
naukri_value_result(t, v) ==
    IF ~positive(v) THEN None
    ELSE IF per_year(t) THEN <<round_times(v, 1)>>
    ELSE IF per_month(t) THEN <<round_times(v, 12)>>
    ELSE IF per_day(t) THEN <<round_times(v, 22 * 12)>>
    ELSE IF per_hour(t) THEN <<round_times(v, 8 * 22 * 12)>>
    ELSE <<round_times(v, 1)>>

\* board 2, the two period-aware branches
naukri_period_result(t, m, m2) ==
    IF m # None THEN naukri_range_result(t, to_float_rupees(m[1]))
    ELSE IF m2 # None THEN naukri_value_result(t, to_float_rupees(m2[1]))
    ELSE None

naukri_parse_text(txt, t) ==
    or_else(IF has_lakh_unit(t) THEN lakh_branch(t) ELSE None,
            naukri_period_result(t, RANGE_RE_search(txt), VALUE_RE_search(txt)))

\* naukri_crawler.parse_salary_to_annual_min_inr: None, or <<annual minimum>>
naukri_parse_salary_to_annual_min_inr(txt) ==
    IF txt = None THEN None ELSE naukri_parse_text(txt, lower(txt))

-----------------------------------------------------------------------------
(* The salary specification: the parser applied to salary texts *)

\* amounts written alone: comma-grouped (western and lakh style), plain, decimal
SingleAmounts ==
    { <<"2", ",", "0", "0", "0">>,
      <<"1", ",", "0", "0", "0">>,
      <<"5", "0", "0">>,
      <<"2", "0", "0", "0", "0">>,
      <<"9", "0", ",", "0", "0", "0">>,
      <<"1", ",", "5", "0", ",", "0", "0", "0">>,
      <<"3", ".", "5">>,
      <<"1", "2">> }

\* amounts written as the ends of a range
RangeAmounts ==
    { <<"1", "2", ",", "0", "0", ",", "0", "0", "0">>,
      <<"1", "8", ",", "0", "0", ",", "0", "0", "0">>,
      <<"9", "0", ",", "0", "0", "0">>,
      <<"1", ",", "1", "0", ",", "0", "0", "0">>,
      <<"2", ",", "0", "0", "0">>,
      <<"5", "0", "0">>,
      <<"2", "0", "0", "0", "0">>,
      <<"1", "0", "0", "0", "0">> }

\* the period words that follow an amount, or nothing
P_none == <<>>
P_year == <<" ", "a", " ", "y", "e", "a", "r">>
P_month == <<" ", "a", " ", "m", "o", "n", "t", "h">>
P_day == <<" ", "a", " ", "d", "a", "y">>
P_hour == <<" ", "a", "n", " ", "h", "o", "u", "r">>
Periods == {P_none, P_year, P_month, P_day, P_hour}

\* with and without the currency glyph
Glyphs == {<<>>, <<RUPEE>>}

\* the dash between the ends of a range
Separators == {<<" ", "-", " ">>, <<"-">>, <<" ", EN_DASH, " ">>}

\* texts with a lakh/crore unit
LakhTexts ==
    { <<"3", "2", " ", "L", "P", "A">>,
      <<"1", "2", "-", "2", "0", " ", "L", "P", "A">>,
      <<"2", "0", " ", "-", " ", "1", "2", " ", "l", "a", "k", "h">>,
      <<"0", ".", "5", " ", "c", "r", "o", "r", "e">>,
      <<"3", ".", "5", " ", "L", "P", "A">>,
      <<"2", "-", "1", " ", "c", "r", "o", "r", "e">>,
      <<"L", "P", "A">> }

\* texts without a number
OtherTexts ==
    { <<"n", "o", " ", "n", "u", "m", "b", "e", "r", "s", " ", "h", "e", "r", "e">>,
      <<"N", "o", "t", " ", "s", "p", "e", "c", "i", "f", "i", "e", "d">>,
      <<RUPEE>> }

SalaryTexts ==
    {g \o a \o p : g \in Glyphs, a \in SingleAmounts, p \in Periods}
    \cup {g \o a \o d \o g \o b \o p :
            g \in Glyphs, a \in RangeAmounts, d \in Separators,
            b \in RangeAmounts, p \in Periods}
    \cup LakhTexts \cup OtherTexts \cup {None}

\* salary_min_inr = parse_salary_to_annual_min_inr(salary_text), board 1
ParseIndeed ==
    /\ parsed = <<>>
    /\ parsed' = <<"indeed", parse_salary_to_annual_min_inr(text)>>
    /\ UNCHANGED text
    /\ UNCHANGED crawlVars
    /\ UNCHANGED seniorVars

\* salary_min_inr = parse_salary_to_annual_min_inr(salary_text), board 2
ParseNaukri ==
    /\ parsed = <<>>
    /\ parsed' = <<"naukri", naukri_parse_salary_to_annual_min_inr(text)>>
    /\ UNCHANGED text
    /\ UNCHANGED crawlVars
    /\ UNCHANGED seniorVars

SalaryInit ==
    /\ text \in SalaryTexts
    /\ parsed = <<>>
    /\ board = "indeed"
    /\ limit = 0
    /\ pc = "idle"
    /\ page_idx = 0
    /\ collected = <<>>
    /\ seen_jks = {}
    /\ page_num = 1
    /\ jobs = <<>>
    /\ seen_links = {}
    /\ cardsLeft = 0
    /\ session = SessionOpen
    /\ saveCalls = <<>>
    /\ visited = 0
    /\ guard = "Normal"
    /\ waits = 0
    /\ rechecks = 0
    /\ lastCard = <<>>
    /\ table = <<>>
    /\ invocation = 0
    /\ paced = 0
    /\ faults = {}
    /\ logged = {}
    /\ title = <<>>
    /\ years = None
    /\ is_senior = <<>>

SalaryNext == ParseIndeed \/ ParseNaukri

SalarySpec == SalaryInit /\ [][SalaryNext]_vars

-----------------------------------------------------------------------------
(* Properties of the salary parser *)

\* the text of the first example of the docstring: a lakh-style range per year
Text_LakhStyleRange ==
    <<RUPEE, "1", "2", ",", "0", "0", ",", "0", "0", "0", " ", "-", " ", RUPEE, "1", "8", ",", "0", "0", ",", "0", "0", "0", " ", "a", " ", "y", "e", "a", "r">>

\* C8: the rupee range "(glyph)12,00,000 - (glyph)18,00,000 a year" is parsed
\* to 1200000, the lower amount in full, by both boards' parsers.
C8_LakhStyleRangePerYear ==
    (text = Text_LakhStyleRange /\ parsed # <<>>) => parsed[2] = <<1200000>>

\* the amount a text is written with: its digits, the commas dropped
written_amount(a) == digits_of(a, 0)

\* the amounts written with comma grouping
CommaAmounts == {a \in SingleAmounts : \E i \in 1..Len(a) : a[i] = ","}

\* C9: a single comma-grouped rupee amount N per day is parsed to N * 22 * 12,
\* and per hour to N * 8 * 22 * 12, N being the whole amount as written.
C9_SingleAmountAnnualized ==
    \A a \in CommaAmounts :
        /\ (parsed # <<>> /\ text = <<RUPEE>> \o a \o P_day)
              => parsed[2] = <<written_amount(a) * 22 * 12>>
        /\ (parsed # <<>> /\ text = <<RUPEE>> \o a \o P_hour)
              => parsed[2] = <<written_amount(a) * 8 * 22 * 12>>

\* x < y for fractions
less(x, y) == x[1] * y[2] < y[1] * x[2]

\* C10: for a text the period-aware range branch matches (no lakh/crore unit),
\* the result is the annualization of the lower of the two matched numbers,
\* whichever is written first.
C10_RangeTakesLower ==
    (/\ parsed # <<>>
     /\ text # None
     /\ ~has_lakh_unit(lower(text))
     /\ RANGE_RE_search(text) # None)
    => LET m == RANGE_RE_search(text)
           a == to_float_rupees(m[1])
           b == to_float_rupees(m[2])
           lower_end == IF less(b, a) THEN b ELSE a
       IN  parsed[2] = <<round_times(lower_end, annual_factor(lower(text)))>>

-----------------------------------------------------------------------------
(* The senior flag of a listing *)

\* the seniority keywords of the title test
KW_senior == <<"s", "e", "n", "i", "o", "r">>
KW_lead == <<"l", "e", "a", "d">>

\* crawl_indeed: is_senior = 1 if (years >= 6 or "senior" in title.lower()
\*                                or "lead" in title.lower()) else 0
indeed_is_senior(t, y) ==
    IF y[1] >= 6 \/ contains(lower(t), KW_senior) \/ contains(lower(t), KW_lead)
    THEN 1 ELSE 0

\* crawl_naukri: is_senior = 1 if ((exp_years is not None and exp_years >= 6)
\*                                or ("senior" in title.lower())) else 0
naukri_is_senior(t, y) ==
    IF (y # None /\ y[1] >= 6) \/ contains(lower(t), KW_senior)
    THEN 1 ELSE 0

\* largest number of years a card states
MaxYears == 7

\* titles of cards; "N/A" and "Unknown" are what a card without title gets
Titles ==
    { <<"S", "e", "n", "i", "o", "r", " ", "E", "n", "g", "i", "n", "e", "e", "r">>,
      <<"J", "a", "v", "a", " ", "D", "e", "v", "e", "l", "o", "p", "e", "r">>,
      <<"T", "e", "a", "m", " ", "L", "e", "a", "d">>,
      <<"L", "E", "A", "D", " ", "D", "e", "v">>,
      <<"S", "E", "N", "I", "O", "R", " ", "Q", "A">>,
      <<"U", "n", "k", "n", "o", "w", "n">>,
      <<"N", "/", "A">> }

\* extract_experience gives an int (0 when the snippet states no years)
IndeedYears == { <<n>> : n \in 0..MaxYears }
\* parse_experience_years gives an int or None
NaukriYears == IndeedYears \cup {None}

\* the is_senior line of crawl_indeed's card loop
FlagIndeed ==
    /\ is_senior = <<>>
    /\ years \in IndeedYears
    /\ is_senior' = <<"indeed", indeed_is_senior(title, years)>>
    /\ UNCHANGED <<title, years>>
    /\ UNCHANGED crawlVars
    /\ UNCHANGED salaryVars

\* the is_senior line of crawl_naukri's card loop
FlagNaukri ==
    /\ is_senior = <<>>
    /\ years \in NaukriYears
    /\ is_senior' = <<"naukri", naukri_is_senior(title, years)>>
    /\ UNCHANGED <<title, years>>
    /\ UNCHANGED crawlVars
    /\ UNCHANGED salaryVars

SeniorInit ==
    /\ title \in Titles
    /\ years \in NaukriYears
    /\ is_senior = <<>>
    /\ text = <<>>
    /\ parsed = <<>>
    /\ board = "indeed"
    /\ limit = 0
    /\ pc = "idle"
    /\ page_idx = 0
    /\ collected = <<>>
    /\ seen_jks = {}
    /\ page_num = 1
    /\ jobs = <<>>
    /\ seen_links = {}
    /\ cardsLeft = 0
    /\ session = SessionOpen
    /\ saveCalls = <<>>
    /\ visited = 0
    /\ guard = "Normal"
    /\ waits = 0
    /\ rechecks = 0
    /\ lastCard = <<>>
    /\ table = <<>>
    /\ invocation = 0
    /\ paced = 0
    /\ faults = {}
    /\ logged = {}

SeniorNext == FlagIndeed \/ FlagNaukri

SeniorSpec == SeniorInit /\ [][SeniorNext]_vars

\* C11: the listing's senior flag is set if and only if the years of
\* experience are 6 or more or the title contains "senior" or "lead", in any
\* letter case, on either board.
C11_SeniorIff ==
    is_senior # <<>> =>
        (is_senior[2] = 1 <=>
            \/ (years # None /\ years[1] >= 6)
            \/ contains(lower(title), KW_senior)
            \/ contains(lower(title), KW_lead))

====
